---- MODULE Spec2Model ----
(***************************************************************************)
(* Model of src/src/main.rs: the wireframe grid demo.                      *)
(*                                                                         *)
(*   - create_grid, a pure function, is checked under GridSpec, whose      *)
(*     initial states draw (width, depth) from a bounded set.              *)
(*   - the event loop of main (State::input, State::resize, State::update, *)
(*     State::render and the closure given to event_loop.run) is checked   *)
(*     under Spec, one action per event the closure matches;               *)
(*   - the camera controller (State::input) is checked under CameraSpec,   *)
(*     the same closure given keyboard events alone, for longer key        *)
(*     sequences.                                                          *)
(*                                                                         *)
(* Number representation.  f32 values are modelled by exact values:        *)
(*   - grid coordinates are reduced fractions <<num, den>>;                *)
(*   - camera_rotation counts radians in units of 0.1;                     *)
(*   - camera_position counts length in units of 0.00001;                  *)
(*   - sin and cos are tabulated at multiples of 0.1 rad in units of       *)
(*     0.0001, so that 0.1 * sin(yaw) is Sin(yaw) position units;          *)
(*   - time counts seconds in units of 1/60.                               *)
(* f32 rounding is not modelled.                                           *)
(***************************************************************************)
EXTENDS Integers, Sequences, FiniteSets, TLC

VARIABLES
    state,          \* the State struct (main.rs:46-61) with the GPU objects it owns
    control_flow,   \* *control_flow of the event loop closure
    event,          \* the event the closure was last called with
    calls,          \* the GPU / stderr calls made while handling that event, in order
    keys,           \* history: keycodes of the key events State::input consumed
    redraws,        \* history: number of RedrawRequested events handled
    grid_args,      \* (width, depth) given to create_grid
    grid_result     \* what create_grid returned for grid_args, or NoGrid

vars == <<state, control_flow, event, calls, keys, redraws, grid_args, grid_result>>

----------------------------------------------------------------------------
(* Bounds of the model *)

\* Largest width and depth GridSpec draws for create_grid.
MaxGrid == 8
\* Number of key events State::input may consume in one behaviour of CameraSpec.
MaxKeys == 3
\* Number of key events State::input may consume in one behaviour of Spec.
MaxMoves == 1
\* Number of RedrawRequested events handled in one behaviour of Spec.
MaxFrames == 2
\* Number of key events State::input may consume in one behaviour of InputSpec.
MaxPresses == 2

----------------------------------------------------------------------------
(* Exact arithmetic helpers *)

Abs(n) == IF n < 0 THEN -n ELSE n

RECURSIVE GCD(_, _)
GCD(a, b) == IF b = 0 THEN a ELSE GCD(b, a % b)

\* The fraction n/d (d > 0) in lowest terms: the value of an f32 division.
Rat(n, d) == LET g == GCD(Abs(n), d) IN <<n \div g, d \div g>>

----------------------------------------------------------------------------
(* create_grid, main.rs:387-442 *)

\* Vertex { position: [x, y, z] }
Vertex(x, y, z) == [position |-> <<x, y, z>>]

\* (i as f32 * 2.0 / n as f32) - 1.0
GridCoord(i, n) == Rat(2 * i - n, n)

\* Mutant of HasConnector: connectors also follow the last line.
HasConnector_mutAlways(i, n) == i < n

\* `if z < depth - 1` / `if x < width - 1`: a connector pair follows line i of n.
HasConnector(i, n) == i < n - 1

\* vertices.push(v) and vertex_count += 1 for each vertex of `line`, in order,
\* after what acc holds.
PushLine(acc, line) ==
    [vertices |-> acc.vertices \o line, vertex_count |-> acc.vertex_count + Len(line)]

\* The (vertices, vertex_count) create_grid starts from (main.rs:388-389).
EmptyGrid == [vertices |-> << >>, vertex_count |-> 0]

\* What iterations a and then b of a loop push, b after a.
Then(a, b) ==
    [vertices |-> a.vertices \o b.vertices, vertex_count |-> a.vertex_count + b.vertex_count]

\* The body of `for z in 0..depth` for one z (main.rs:393-413).
HorizontalLine(z, width, depth) ==
    LET z_pos == GridCoord(z, depth)
        row   == [x \in 1..width |-> Vertex(GridCoord(x - 1, width), <<0, 1>>, z_pos)]
        conn  == IF HasConnector(z, depth)
                 THEN << Vertex(<<1, 1>>, <<0, 1>>, z_pos),
                         Vertex(<<-1, 1>>, <<0, 1>>, GridCoord(z + 1, depth)) >>
                 ELSE << >>
    IN  PushLine(PushLine(EmptyGrid, row), conn)

\* The body of `for x in 0..width` for one x (main.rs:418-438).
VerticalLine(x, width, depth) ==
    LET x_pos == GridCoord(x, width)
        col   == [z \in 1..depth |-> Vertex(x_pos, <<0, 1>>, GridCoord(z - 1, depth))]
        conn  == IF HasConnector(x, width)
                 THEN << Vertex(x_pos, <<0, 1>>, <<1, 1>>),
                         Vertex(GridCoord(x + 1, width), <<0, 1>>, <<-1, 1>>) >>
                 ELSE << >>
    IN  PushLine(PushLine(EmptyGrid, col), conn)

\* `for z in lo..hi`, main.rs:392-414: the iterations in increasing z.  The range
\* is evaluated by halves, which gives the same order of pushes.
RECURSIVE HorizontalPass(_, _, _, _)
HorizontalPass(lo, hi, width, depth) ==
    IF lo >= hi THEN EmptyGrid
    ELSE IF hi = lo + 1 THEN HorizontalLine(lo, width, depth)
    ELSE LET mid == (lo + hi) \div 2
         IN  Then(HorizontalPass(lo, mid, width, depth), HorizontalPass(mid, hi, width, depth))

\* `for x in lo..hi`, main.rs:417-439.
RECURSIVE VerticalPass(_, _, _, _)
VerticalPass(lo, hi, width, depth) ==
    IF lo >= hi THEN EmptyGrid
    ELSE IF hi = lo + 1 THEN VerticalLine(lo, width, depth)
    ELSE LET mid == (lo + hi) \div 2
         IN  Then(VerticalPass(lo, mid, width, depth), VerticalPass(mid, hi, width, depth))

\* fn create_grid(width: u32, depth: u32) -> (Vec<Vertex>, usize)
create_grid(width, depth) ==
    Then(HorizontalPass(0, depth, width, depth), VerticalPass(0, width, width, depth))

NoGrid == [vertices |-> << >>, vertex_count |-> -1]

----------------------------------------------------------------------------
(* Uniforms, main.rs:17-44, and the cgmath calls it is built from *)

\* f32::sin and f32::cos at k * 0.1 rad, in units of 0.0001, for k = 0..16.
SinTable == << 0, 998, 1987, 2955, 3894, 4794, 5646, 6442, 7174, 7833, 8415,
               8912, 9320, 9636, 9854, 9975, 9996 >>
CosTable == << 10000, 9950, 9801, 9553, 9211, 8776, 8253, 7648, 6967, 6216, 5403,
               4536, 3624, 2675, 1700, 707, -292 >>

Sin(k) == IF k < 0 THEN -SinTable[1 - k] ELSE SinTable[1 + k]
Cos(k) == IF k < 0 THEN CosTable[1 - k] ELSE CosTable[1 + k]

\* The direction of vector v: v scaled to its primitive integer vector.  Two
\* vectors have the same normalisation exactly when this agrees.
Direction(v) ==
    LET g == GCD(GCD(Abs(v[1]), Abs(v[2])), Abs(v[3]))
    IN  IF g = 0 THEN v ELSE << v[1] \div g, v[2] \div g, v[3] \div g >>

\* Matrix4::look_at_rh(eye, center, up): the matrix is a function of the eye,
\* the normalised direction center - eye, and up.
LookAtRh(eye, center, up) ==
    [eye |-> eye,
     dir |-> Direction(<< center[1] - eye[1], center[2] - eye[2], center[3] - eye[3] >>),
     up  |-> up]

\* cgmath::perspective(Deg(fovy), aspect, near, far); aspect, near and far are fractions.
Perspective(fovy, aspect, near, far) ==
    [fovy |-> fovy, aspect |-> aspect, near |-> near, far |-> far]

\* perspective * view
MatMul(p, v) == [perspective |-> p, view |-> v]

UnitY == << 0, 1, 0 >>

\* Uniforms::new(), main.rs:26-39: aspect 800.0 / 600.0, eye (0, 0.5, -5),
\* center (0, 0.5, 0).
Uniforms_new ==
    [time      |-> 0,
     padding   |-> << 0, 0, 0 >>,
     view_proj |-> MatMul(Perspective(45, Rat(800, 600), Rat(1, 10), Rat(100, 1)),
                          LookAtRh(<< 0, 50000, -500000 >>, << 0, 50000, 0 >>, UnitY))]

\* Uniforms::update(&mut self, time), main.rs:41-43
Uniforms_update(u, time) == [u EXCEPT !.time = time]

----------------------------------------------------------------------------
(* State, main.rs:46-331 *)

\* create_depth_texture(device, config), main.rs:507-527
create_depth_texture(config) ==
    [width |-> config.width, height |-> config.height, format |-> "Depth32Float"]

\* window.inner_size() of the window built at main.rs:336-340
WindowInnerSize == [width |-> 800, height |-> 600]

\* State::new, main.rs:64-181 (the fields the event loop reads or writes).
State_new ==
    LET size   == WindowInnerSize
        config == [width |-> size.width, height |-> size.height]
        grid   == create_grid(80, 60)
    IN  [size            |-> size,
         config          |-> config,
         surface         |-> config,
         vertex_buffer   |-> Len(grid.vertices),
         num_vertices    |-> grid.vertex_count,
         time            |-> 0,
         uniform_buffer  |-> Uniforms_new,
         depth_texture   |-> create_depth_texture(config),
         camera_position |-> << 0, 50000, -500000 >>,
         camera_rotation |-> 0]

\* let movement_speed = 0.1, in position units (main.rs:213)
movement_speed == 10000
\* let rotation_speed = 0.1, in rotation units (main.rs:214)
rotation_speed == 1

\* Mutant of resize: the size guard is dropped.
resize_mutNoGuard(s, new_size) ==
    LET config   == [width |-> new_size.width, height |-> new_size.height]
        uniforms == Uniforms_update(Uniforms_new, s.time)
    IN  [state |-> [s EXCEPT !.size = new_size, !.config = config, !.surface = config,
                             !.depth_texture = create_depth_texture(config),
                             !.uniform_buffer = uniforms],
         calls |-> << [op |-> "configure", width |-> config.width, height |-> config.height],
                      [op |-> "create_texture", width |-> config.width, height |-> config.height],
                      [op |-> "write_buffer", data |-> uniforms] >>]

\* Mutant of resize: the depth texture is not recreated.
resize_mutKeepDepth(s, new_size) ==
    IF new_size.width > 0 /\ new_size.height > 0
    THEN LET config   == [width |-> new_size.width, height |-> new_size.height]
             uniforms == Uniforms_update(Uniforms_new, s.time)
         IN  [state |-> [s EXCEPT !.size = new_size, !.config = config, !.surface = config,
                                  !.uniform_buffer = uniforms],
              calls |-> << [op |-> "configure", width |-> config.width, height |-> config.height],
                           [op |-> "write_buffer", data |-> uniforms] >>]
    ELSE [state |-> s, calls |-> << >>]

\* State::resize, main.rs:183-200
resize(s, new_size) ==
    IF new_size.width > 0 /\ new_size.height > 0
    THEN LET config   == [width |-> new_size.width, height |-> new_size.height]
             uniforms == Uniforms_update(Uniforms_new, s.time)
         IN  [state |-> [s EXCEPT !.size = new_size, !.config = config, !.surface = config,
                                  !.depth_texture = create_depth_texture(config),
                                  !.uniform_buffer = uniforms],
              calls |-> << [op |-> "configure", width |-> config.width, height |-> config.height],
                           [op |-> "create_texture", width |-> config.width, height |-> config.height],
                           [op |-> "write_buffer", data |-> uniforms] >>]
    ELSE [state |-> s, calls |-> << >>]

\* camera_position.z += movement_speed * cos; camera_position.x += movement_speed * sin
\* (main.rs:218-219).  movement_speed * sin(r) is Sin(r) position units.
Forward(p, r) == << p[1] + Sin(r), p[2], p[3] + Cos(r) >>

\* Mutant of Backward: x is stepped with the sign of the forward move.
Backward_mutSign(p, r) == << p[1] + Sin(r), p[2], p[3] - Cos(r) >>

\* camera_position.z -= movement_speed * cos; camera_position.x -= movement_speed * sin
\* (main.rs:223-224)
Backward(p, r) == << p[1] - Sin(r), p[2], p[3] - Cos(r) >>

\* The inner `match keycode` of State::input, main.rs:216-244.
MoveCamera(s, keycode) ==
    LET p == s.camera_position
        r == s.camera_rotation
    IN  CASE keycode = "W" ->
               [state |-> [s EXCEPT !.camera_position = Forward(p, r)], consumed |-> TRUE]
          [] keycode = "S" ->
               [state |-> [s EXCEPT !.camera_position = Backward(p, r)], consumed |-> TRUE]
          [] keycode = "A" ->
               [state |-> [s EXCEPT !.camera_rotation = r - rotation_speed], consumed |-> TRUE]
          [] keycode = "D" ->
               [state |-> [s EXCEPT !.camera_rotation = r + rotation_speed], consumed |-> TRUE]
          [] keycode = "Q" ->
               [state |-> [s EXCEPT !.camera_position = << p[1], p[2] + movement_speed, p[3] >>],
                consumed |-> TRUE]
          [] keycode = "E" ->
               [state |-> [s EXCEPT !.camera_position = << p[1], p[2] - movement_speed, p[3] >>],
                consumed |-> TRUE]
          [] OTHER -> [state |-> s, consumed |-> FALSE]

\* Mutant of input: every keycode is consumed.
input_mutConsumeAll(s, ev) ==
    IF ev.kind = "KeyboardInput" /\ ev.state = "Pressed" /\ ev.virtual_keycode # "None"
    THEN [state |-> MoveCamera(s, ev.virtual_keycode).state, consumed |-> TRUE]
    ELSE [state |-> s, consumed |-> FALSE]

\* State::input, main.rs:202-248: the outer pattern matches a KeyboardInput whose
\* state is Pressed and whose virtual_keycode is Some(keycode); every other field
\* of the event is ignored (`..`).
input(s, ev) ==
    IF ev.kind = "KeyboardInput" /\ ev.state = "Pressed" /\ ev.virtual_keycode # "None"
    THEN MoveCamera(s, ev.virtual_keycode)
    ELSE [state |-> s, consumed |-> FALSE]

\* The uniforms State::update computes, main.rs:254-274.
ComputeUniforms(time, camera_position, camera_rotation, size) ==
    LET p      == camera_position
        \* sin and cos in position units: 10 position units per trig unit
        center == << p[1] + 10 * Sin(camera_rotation), p[2], p[3] + 10 * Cos(camera_rotation) >>
        view   == LookAtRh(p, center, UnitY)
        persp  == Perspective(45, Rat(size.width, size.height), Rat(1, 10), Rat(100, 1))
    IN  [Uniforms_new EXCEPT !.time = time, !.view_proj = MatMul(persp, view)]

\* State::update, main.rs:250-278
update(s) ==
    LET time     == s.time + 1
        uniforms == ComputeUniforms(time, s.camera_position, s.camera_rotation, s.size)
    IN  [state |-> [s EXCEPT !.time = time, !.uniform_buffer = uniforms],
         calls |-> << [op |-> "write_buffer", data |-> uniforms] >>]

\* wgpu::SurfaceError
SurfaceErrors == {"Timeout", "Outdated", "Lost", "OutOfMemory"}

\* State::render, main.rs:280-330.  acquired is what surface.get_current_texture()
\* returns: "Ok" or a SurfaceError, which `?` returns at once.
render(s, acquired) ==
    IF acquired # "Ok"
    THEN [result |-> acquired, calls |-> << [op |-> "get_current_texture"] >>]
    ELSE [result |-> "Ok",
          calls  |-> << [op |-> "get_current_texture"],
                        [op |-> "begin_render_pass", color |-> s.surface,
                         depth |-> s.depth_texture, clear_depth |-> 1],
                        [op |-> "draw", first |-> 0, count |-> s.num_vertices,
                         uniforms |-> s.uniform_buffer],
                        [op |-> "submit"],
                        [op |-> "present"] >>]

----------------------------------------------------------------------------
(* The closure given to event_loop.run, main.rs:344-384 *)

\* ControlFlow::Poll, the value the loop starts with
ControlFlow_Poll == [tag |-> "Poll"]
\* ControlFlow::Exit, which is ControlFlow::ExitWithCode(0)
ControlFlow_Exit == [tag |-> "ExitWithCode", code |-> 0]

\* The pattern of main.rs:351-360.
IsExitEvent(ev) ==
    \/ ev.kind = "CloseRequested"
    \/ /\ ev.kind = "KeyboardInput"
       /\ ev.state = "Pressed"
       /\ ev.virtual_keycode = "Escape"

\* The Event::WindowEvent arm, main.rs:345-370.
WindowEventArm(s, cf, ev) ==
    LET i == input(s, ev)
    IN  IF i.consumed THEN [state |-> i.state, control_flow |-> cf, calls |-> << >>]
        ELSE IF IsExitEvent(ev)
             THEN [state |-> i.state, control_flow |-> ControlFlow_Exit, calls |-> << >>]
        ELSE IF ev.kind \in {"Resized", "ScaleFactorChanged"}
             THEN LET r == resize(i.state, ev.size)
                  IN  [state |-> r.state, control_flow |-> cf, calls |-> r.calls]
        ELSE [state |-> i.state, control_flow |-> cf, calls |-> << >>]

\* Mutant of RedrawArm: render runs before update.
RedrawArm_mutRenderFirst(s, cf, acquired) ==
    LET d == render(s, acquired)
        u == update(s)
    IN  [state |-> u.state, control_flow |-> cf, calls |-> d.calls \o u.calls]

\* Mutant of RedrawArm: every acquisition error is only logged.
RedrawArm_mutLogAll(s, cf, acquired) ==
    LET u == update(s)
        d == render(u.state, acquired)
    IN  IF d.result = "Ok"
        THEN [state |-> u.state, control_flow |-> cf, calls |-> u.calls \o d.calls]
        ELSE [state |-> u.state, control_flow |-> cf,
              calls |-> u.calls \o d.calls \o << [op |-> "eprintln", error |-> d.result] >>]

\* The Event::RedrawRequested arm, main.rs:371-379.
RedrawArm(s, cf, acquired) ==
    LET u == update(s)
        d == render(u.state, acquired)
    IN  CASE d.result = "Ok" ->
               [state |-> u.state, control_flow |-> cf, calls |-> u.calls \o d.calls]
          [] d.result = "Lost" ->
               LET r == resize(u.state, u.state.size)
               IN  [state |-> r.state, control_flow |-> cf,
                    calls |-> u.calls \o d.calls \o r.calls]
          [] d.result = "OutOfMemory" ->
               [state |-> u.state, control_flow |-> ControlFlow_Exit,
                calls |-> u.calls \o d.calls]
          [] OTHER ->
               [state |-> u.state, control_flow |-> cf,
                calls |-> u.calls \o d.calls \o << [op |-> "eprintln", error |-> d.result] >>]

----------------------------------------------------------------------------
(* Events the windowing layer delivers *)

KeyCodes == {"W", "S", "A", "D", "Q", "E", "Escape", "Space", "None"}
BoundKeys == {"W", "S", "A", "D", "Q", "E"}

\* A KeyboardInput event, by the two fields State::input matches (main.rs:204-212).
\* ElementState has the two values Pressed and Released and the event carries no
\* repeat flag, so a held key's repeat arrives as one more Pressed event of the
\* same key, with no Released event of that key before it.
KeyboardEvents ==
    { [kind |-> "KeyboardInput", state |-> st, virtual_keycode |-> k] :
        st \in {"Pressed", "Released"}, k \in KeyCodes }

\* PhysicalSize<u32> values the window may report.
Sizes == { [width |-> w, height |-> h] : w \in {0, 400, 800}, h \in {0, 300, 600} }

AcquireResults == {"Ok"} \cup SurfaceErrors

\* The closure has no guard on *control_flow: the event loop goes on calling it
\* with the events it still has after ControlFlow::Exit was set, and calls it a
\* last time with Event::LoopDestroyed, after which the process exits.
Running == event.kind # "LoopDestroyed"

Init ==
    /\ state = State_new
    /\ control_flow = ControlFlow_Poll
    /\ event = [kind |-> "Init"]
    /\ calls = << >>
    /\ keys = << >>
    /\ redraws = 0
    /\ grid_args = << 80, 60 >>
    /\ grid_result = NoGrid

\* One call of the closure with a WindowEvent.
Dispatch(ev, max_keys) ==
    LET out == WindowEventArm(state, control_flow, ev)
        consumed == input(state, ev).consumed
    IN  /\ Running
        /\ consumed => Len(keys) < max_keys
        /\ state' = out.state
        /\ control_flow' = out.control_flow
        /\ calls' = out.calls
        /\ event' = ev
        /\ keys' = IF consumed THEN Append(keys, ev.virtual_keycode) ELSE keys
        /\ UNCHANGED <<redraws, grid_args, grid_result>>

KeyboardInput == \E ev \in KeyboardEvents : Dispatch(ev, MaxMoves)

CloseRequested == Dispatch([kind |-> "CloseRequested"], MaxMoves)

Resized == \E sz \in Sizes : Dispatch([kind |-> "Resized", size |-> sz], MaxMoves)

ScaleFactorChanged == \E sz \in Sizes : Dispatch([kind |-> "ScaleFactorChanged", size |-> sz], MaxMoves)

\* Any WindowEvent the closure has no pattern for (main.rs:367).
OtherWindowEvent == Dispatch([kind |-> "Focused"], MaxMoves)

RedrawRequested ==
    \E acquired \in AcquireResults :
        LET out == RedrawArm(state, control_flow, acquired)
        IN  /\ Running
            /\ redraws < MaxFrames
            /\ state' = out.state
            /\ control_flow' = out.control_flow
            /\ calls' = out.calls
            /\ event' = [kind |-> "RedrawRequested", acquired |-> acquired]
            /\ redraws' = redraws + 1
            /\ UNCHANGED <<keys, grid_args, grid_result>>

\* Event::MainEventsCleared, main.rs:380-382: window.request_redraw().
MainEventsCleared ==
    /\ Running
    /\ event' = [kind |-> "MainEventsCleared"]
    /\ calls' = << [op |-> "request_redraw"] >>
    /\ UNCHANGED <<state, control_flow, keys, redraws, grid_args, grid_result>>

\* Event::LoopDestroyed, main.rs:383 (`_ => {}`): the last call of the closure,
\* made once *control_flow is ControlFlow::Exit.
LoopDestroyed ==
    /\ Running
    /\ control_flow = ControlFlow_Exit
    /\ event' = [kind |-> "LoopDestroyed"]
    /\ calls' = << >>
    /\ UNCHANGED <<state, control_flow, keys, redraws, grid_args, grid_result>>

Next ==
    \/ KeyboardInput
    \/ CloseRequested
    \/ Resized
    \/ ScaleFactorChanged
    \/ OtherWindowEvent
    \/ RedrawRequested
    \/ MainEventsCleared
    \/ LoopDestroyed

Spec == Init /\ [][Next]_vars

----------------------------------------------------------------------------
(* The camera under keyboard events alone *)

CameraKeyboardInput == \E ev \in KeyboardEvents : Dispatch(ev, MaxKeys)

CameraNext == CameraKeyboardInput

CameraSpec == Init /\ [][CameraNext]_vars

----------------------------------------------------------------------------
(* Every event of the closure, with room for a key press and its repeat *)

InputKeyboardInput == \E ev \in KeyboardEvents : Dispatch(ev, MaxPresses)

InputNext ==
    \/ InputKeyboardInput
    \/ CloseRequested
    \/ Resized
    \/ ScaleFactorChanged
    \/ OtherWindowEvent
    \/ RedrawRequested
    \/ MainEventsCleared
    \/ LoopDestroyed

InputSpec == Init /\ [][InputNext]_vars

----------------------------------------------------------------------------
(* create_grid applied to bounded inputs *)

GridInputs == ((1..MaxGrid) \X (1..MaxGrid)) \cup {<< 80, 60 >>}

GridInit ==
    /\ state = State_new
    /\ control_flow = ControlFlow_Poll
    /\ event = [kind |-> "Init"]
    /\ calls = << >>
    /\ keys = << >>
    /\ redraws = 0
    /\ grid_args \in GridInputs
    /\ grid_result = NoGrid

CreateGrid ==
    /\ grid_result = NoGrid
    /\ grid_result' = create_grid(grid_args[1], grid_args[2])
    /\ UNCHANGED <<state, control_flow, event, calls, keys, redraws, grid_args>>

GridNext == CreateGrid

GridSpec == GridInit /\ [][GridNext]_vars

----------------------------------------------------------------------------
(* Properties *)

\* The ops of the calls in cs.
Ops(cs) == { cs[i].op : i \in DOMAIN cs }

\* The calls of cs with the given op, in order.
CallsOf(cs, op) == SelectSeq(cs, LAMBDA c : c.op = op)

InitialPosition == << 0, 50000, -500000 >>

GridBuilt == grid_result # NoGrid

\* C1: for positive W and D, create_grid(W, D) returns W*D + (D-1)*2 + W*D + (W-1)*2
\* vertices (9876 for W = 80, D = 60), also when W = 1 or D = 1; the returned
\* vertex_count is the length of the returned vertices, so the draw range
\* 0..num_vertices of the state built from create_grid(80, 60) covers the buffer.
C1_VertexCount ==
    /\ GridBuilt =>
         LET W == grid_args[1]
             D == grid_args[2]
         IN  /\ Len(grid_result.vertices) = W * D + (D - 1) * 2 + W * D + (W - 1) * 2
             /\ grid_result.vertex_count = Len(grid_result.vertices)
             /\ grid_args = << 80, 60 >> => grid_result.vertex_count = 9876
    /\ state.num_vertices = state.vertex_buffer
    /\ state.num_vertices = 9876

\* C1 witness: the grid of a single column and several rows was built.
C1_Witness == GridBuilt /\ grid_args = << 1, 3 >> /\ grid_result.vertex_count = 10

\* C2 (as claimed): after every row of the horizontal pass but the last, and after
\* every column of the vertical pass but the last, exactly two connectors follow:
\* the first equals the last vertex pushed for that line, the second equals the
\* first vertex pushed for the next line.
C2_ConnectorsCoincide ==
    GridBuilt =>
        LET W == grid_args[1]
            D == grid_args[2]
            v == grid_result.vertices
            H == W * D + (D - 1) * 2
        IN  /\ Len(v) = H + W * D + (W - 1) * 2
            /\ \A z \in 0..(D - 2) :
                 LET base == z * (W + 2)
                 IN  /\ v[base + W + 1] = v[base + W]
                     /\ v[base + W + 2] = v[base + W + 3]
            /\ \A x \in 0..(W - 2) :
                 LET base == H + x * (D + 2)
                 IN  /\ v[base + D + 1] = v[base + D]
                     /\ v[base + D + 2] = v[base + D + 3]

\* Number of i in 1..n with keys[i] = k.
Presses(k, n) == Cardinality({ i \in 1..n : keys[i] = k })

\* The yaw in effect when keys[i] was pressed.
YawAt(i) == Presses("D", i - 1) - Presses("A", i - 1)

\* Sum over the presses i <= n of W and S of +/- f(yaw at i).
RECURSIVE MoveSum(_, _)
MoveSum(n, trig) ==
    IF n = 0 THEN 0
    ELSE MoveSum(n - 1, trig)
         + (CASE keys[n] = "W" -> trig[YawAt(n)]
              [] keys[n] = "S" -> -trig[YawAt(n)]
              [] OTHER -> 0)

SinAt == [k \in -(MaxKeys + 1)..(MaxKeys + 1) |-> Sin(k)]
CosAt == [k \in -(MaxKeys + 1)..(MaxKeys + 1) |-> Cos(k)]

\* C3: after any sequence of key presses from position (0, 0.5, -5) and yaw 0,
\* yaw = 0.1 * (#D - #A), y = 0.5 + 0.1 * (#Q - #E), and x and z are the sums of
\* +/- 0.1 * sin(yaw), 0.1 * cos(yaw) over the W and S presses at the yaw in effect
\* at each press; one W from the start gives (0, 0.5, -4.9), and W then S restores
\* the position.
C3_Superposition ==
    LET n == Len(keys)
        p == state.camera_position
    IN  /\ state.camera_rotation = rotation_speed * (Presses("D", n) - Presses("A", n))
        /\ p[2] = InitialPosition[2] + movement_speed * (Presses("Q", n) - Presses("E", n))
        /\ p[1] = InitialPosition[1] + MoveSum(n, SinAt)
        /\ p[3] = InitialPosition[3] + MoveSum(n, CosAt)
        /\ keys = << "W" >> => p = << 0, 50000, -490000 >>
        /\ keys = << "W", "S" >> => p = InitialPosition

\* C3 witness: yaw right, forward, backward: the position is restored at yaw 0.1.
C3_Witness ==
    /\ keys = << "D", "W", "S" >>
    /\ state.camera_rotation = 1
    /\ state.camera_position = InitialPosition

CameraChanged ==
    \/ state'.camera_position # state.camera_position
    \/ state'.camera_rotation # state.camera_rotation

\* The step delivers a Pressed event of a key directly after a Pressed event of
\* that same key: the key was not released in between, so the second event is
\* the held key's repeat and no key-press edge.
IsHeldKeyRepeat ==
    /\ event.kind = "KeyboardInput"
    /\ event.state = "Pressed"
    /\ event'.kind = "KeyboardInput"
    /\ event'.state = "Pressed"
    /\ event'.virtual_keycode = event.virtual_keycode

\* C4: the camera changes only on a key-press edge of W, S, A, D, Q or E: not on
\* a release, not on a held key's repeat, not on another key, not on a
\* non-keyboard event.  Violated: Pressed W followed by Pressed W, the repeat of
\* the held W, moves the camera a second time.
C4_PressEdgeOnly ==
    [][ CameraChanged =>
          /\ event'.kind = "KeyboardInput"
          /\ event'.state = "Pressed"
          /\ event'.virtual_keycode \in BoundKeys
          /\ ~IsHeldKeyRepeat ]_vars

IsOutOfMemory(ev) == ev.kind = "RedrawRequested" /\ ev.acquired = "OutOfMemory"

Exited == control_flow.tag = "ExitWithCode"

\* C5 (as claimed): the step that exits the loop gives exit code 0 when its cause
\* is an Escape press or a close request, and a non-zero exit code when its cause
\* is OutOfMemory.
C5_ExitStatusDistinguishes ==
    [][ (~Exited /\ Exited') =>
          /\ IsExitEvent(event') => control_flow'.code = 0
          /\ IsOutOfMemory(event') => control_flow'.code # 0 ]_vars

\* C5 (amended): an Escape press or a close request, in any state of the loop,
\* exits with code 0 (Escape is not consumed by State::input), and OutOfMemory from
\* the acquisition exits the loop too, with the same exit code 0; the exit code
\* set is never changed afterwards.
C5_ExitCodeZero ==
    [][ /\ IsExitEvent(event') => control_flow' = [tag |-> "ExitWithCode", code |-> 0]
        /\ IsOutOfMemory(event') => control_flow' = [tag |-> "ExitWithCode", code |-> 0]
        /\ Exited => control_flow' = control_flow ]_vars

\* C5 witness: OutOfMemory at the first redraw has set the exit, no exit event
\* came before it.
C5_Witness ==
    /\ Exited
    /\ IsOutOfMemory(event)
    /\ redraws = 1
    /\ keys = << >>
    /\ state.size = WindowInnerSize
    /\ state.uniform_buffer.time = 1
    /\ control_flow.code = 0

IsAcquireError(ev, errors) == ev.kind = "RedrawRequested" /\ ev.acquired \in errors

\* C6: on a redraw whose acquisition fails, Lost reconfigures the surface at the
\* unchanged size and requests no exit, so a loop that runs keeps running;
\* OutOfMemory exits the loop; any other error is logged, nothing is drawn,
\* submitted, presented or reconfigured, and no exit is requested.  The loop
\* exits only on a close request, an Escape press or OutOfMemory.
C6_AcquireErrors ==
    [][ /\ IsAcquireError(event', {"Lost"}) =>
              /\ CallsOf(calls', "configure") =
                    << [op |-> "configure", width |-> state.size.width,
                        height |-> state.size.height] >>
              /\ state'.size = state.size
              /\ state'.surface = state.surface
              /\ Ops(calls') \cap {"draw", "submit", "present", "eprintln"} = {}
              /\ control_flow' = control_flow
        /\ IsAcquireError(event', {"OutOfMemory"}) =>
              /\ control_flow'.tag = "ExitWithCode"
              /\ Ops(calls') \cap {"draw", "submit", "present", "configure"} = {}
        /\ IsAcquireError(event', {"Timeout", "Outdated"}) =>
              /\ CallsOf(calls', "eprintln") = << [op |-> "eprintln", error |-> event'.acquired] >>
              /\ Ops(calls') \cap {"draw", "submit", "present", "configure", "create_texture"} = {}
              /\ state'.surface = state.surface
              /\ state'.depth_texture = state.depth_texture
              /\ control_flow' = control_flow
        /\ control_flow' # control_flow =>
              /\ control_flow = ControlFlow_Poll
              /\ IsExitEvent(event') \/ IsOutOfMemory(event') ]_vars

\* C6 witness: a second redraw follows a Lost one, and its acquisition is Lost too:
\* the surface was configured again and the loop runs.
C6_Witness ==
    /\ IsAcquireError(event, {"Lost"})
    /\ redraws = 2
    /\ control_flow = ControlFlow_Poll
    /\ "configure" \in Ops(calls)

IsZeroResize(ev) ==
    /\ ev.kind \in {"Resized", "ScaleFactorChanged"}
    /\ ev.size.width = 0 \/ ev.size.height = 0

\* C7: a resize or scale-factor change to a size with width 0 or height 0 leaves
\* the size, the surface configuration, the depth texture and the uniform buffer
\* unchanged and configures nothing; the height State::update divides by is never 0.
C7_ZeroResizeNoOp ==
    [][ /\ IsZeroResize(event') =>
              /\ state'.size = state.size
              /\ state'.config = state.config
              /\ state'.surface = state.surface
              /\ state'.depth_texture = state.depth_texture
              /\ state'.uniform_buffer = state.uniform_buffer
              /\ calls' = << >>
        /\ event'.kind = "RedrawRequested" => state.size.height > 0 ]_vars

\* C7 witness: a resize to width 0 was handled after a frame, and the size is kept.
C7_Witness ==
    /\ event = [kind |-> "Resized", size |-> [width |-> 0, height |-> 300]]
    /\ state.size = [width |-> 800, height |-> 600]
    /\ state.uniform_buffer.time = 1
    /\ calls = << >>

\* C8 (as claimed): every uniform value written to the uniform buffer, by
\* State::update and by State::resize, has in its projection the aspect ratio
\* width / height of the latest accepted size.
C8_WrittenAspectIsCurrent ==
    \A i \in DOMAIN calls :
        calls[i].op = "write_buffer" =>
            calls[i].data.view_proj.perspective.aspect
                = Rat(state.size.width, state.size.height)

\* The uniforms the frame numbered `frame` shows for the given camera and size.
FrameUniforms(frame, position, rotation, size) ==
    [time      |-> frame,
     padding   |-> << 0, 0, 0 >>,
     view_proj |->
        [perspective |-> [fovy |-> 45, aspect |-> Rat(size.width, size.height),
                          near |-> << 1, 10 >>, far |-> << 100, 1 >>],
         view |-> [eye |-> position,
                   dir |-> Direction(<< Sin(rotation), 0, Cos(rotation) >>),
                   up  |-> << 0, 1, 0 >>]]]

\* C9: in every redraw the uniforms are written before the acquisition attempt,
\* with no camera or size change in between; what a draw call reads has time =
\* (redraws handled so far) / 60, failed ones counted, and the view-projection of
\* the current camera and size.
C9_FreshUniformsAtDraw ==
    [][ event'.kind = "RedrawRequested" =>
          LET fresh == FrameUniforms(redraws', state.camera_position,
                                     state.camera_rotation, state.size)
          IN  /\ calls'[1] = [op |-> "write_buffer", data |-> fresh]
              /\ calls'[2] = [op |-> "get_current_texture"]
              /\ \A i \in DOMAIN calls' :
                    calls'[i].op = "draw" => i > 2 /\ calls'[i].uniforms = fresh
              /\ event'.acquired = "Ok" => "draw" \in Ops(calls')
              /\ state'.camera_position = state.camera_position
              /\ state'.camera_rotation = state.camera_rotation
              /\ state'.size = state.size
              /\ state'.time = redraws' ]_vars

\* C9 witness: the second redraw draws after a resize and a camera move, and the
\* buffer before it did not hold this frame's view.
C9_Witness ==
    /\ event = [kind |-> "RedrawRequested", acquired |-> "Ok"]
    /\ redraws = 2
    /\ state.size = [width |-> 400, height |-> 600]
    /\ state.camera_rotation = 1
    /\ \E i \in DOMAIN calls :
          /\ calls[i].op = "draw"
          /\ calls[i].uniforms.time = 2
          /\ calls[i].uniforms.view_proj.perspective.aspect = << 2, 3 >>
          /\ calls[i].uniforms.view_proj.view.dir = Direction(<< 998, 0, 9950 >>)

IsResize(ev) == ev.kind \in {"Resized", "ScaleFactorChanged"}

Extent(x) == << x.width, x.height >>

\* C10: in every reachable state the depth texture's dimensions equal the surface
\* configuration's, which equal the stored size, all greater than zero; a resize
\* and a scale-factor change to a positive size both make it the stored size, and
\* a render pass is given colour and depth attachments of the same dimensions.
C10_SizesAgree ==
    /\ Extent(state.depth_texture) = Extent(state.config)
    /\ Extent(state.surface) = Extent(state.config)
    /\ Extent(state.config) = Extent(state.size)
    /\ state.size.width > 0
    /\ state.size.height > 0
    /\ (IsResize(event) /\ event.size.width > 0 /\ event.size.height > 0) =>
            state.size = event.size
    /\ \A i \in DOMAIN calls :
            calls[i].op = "begin_render_pass" =>
                Extent(calls[i].depth) = Extent(calls[i].color)

\* C10 witness: a scale-factor change to 400 x 300 was handled after a redraw.
C10_Witness ==
    /\ event.kind = "ScaleFactorChanged"
    /\ redraws > 0
    /\ Extent(state.depth_texture) = << 400, 300 >>
    /\ Extent(state.size) = << 400, 300 >>

====
